---- MODULE Spec2Model ----
(***************************************************************************)
(* Model of the serverledge node: the resource ledger and the per-function *)
(* container pools (internal/node), and the custom cloud-offload policy    *)
(* that drives them on arrival and completion of a request                 *)
(* (internal/scheduling/customCloudOffloadPolicy.go).                      *)
(*                                                                         *)
(* Every section that runs with Resources.Lock() held is one atomic        *)
(* action.  NewContainer drops the lock between the reservation and the    *)
(* creation of the sandbox, so it is two actions.  CPU shares and memory   *)
(* are counted in whole units; demands are non-negative.  The callers of   *)
(* the pool are tasks: in Spec and SpecCore a task calls the operations of *)
(* the node package directly, in SpecSched it is a request going through   *)
(* OnArrival and OnCompletion.  SpecCore runs MaxReq tasks without the     *)
(* shutdown operations; Spec, with the shutdown operations, and SpecSched  *)
(* run MaxTasks tasks.  In SpecApi the requests come through               *)
(* InvokeFunction (internal/api/api.go) while functions are deleted, the   *)
(* runtime of a function may be unknown to the node, and the node-done     *)
(* signal of ReleaseContainer is sent by its goroutine.  SpecLB is the     *)
(* load balancer (internal/lb/lb.go): requests are forwarded while the MAB *)
(* agent swaps the policy and the targets are refreshed.  In SpecStatus    *)
(* the lock of Resources is taken step by step by GetServerStatus and by   *)
(* AcquireResources; in SpecPool the calls of InvokeFunction take their    *)
(* request object from requestsPool.                                       *)
(***************************************************************************)
EXTENDS Integers, Sequences, FiniteSets, TLC

\* ------------------------------------------------------------------ bounds
InitCPU == 1
InitMem == 3
MaxContainers == 3
MaxReq == 3
MaxTasks == 2
MaxTime == 1
ExpirationTime == 0
NanosPerSecond == 2
MaxLBReq == 1
MaxCycles == 1
MaxRefresh == 1
MaxStatus == 2
MaxWriters == 2
MaxInv == 2
MaxObjs == 2

\* ------------------------------------------------------- function registry
Funcs == {"f", "g"}

CPUDemand(fn) == IF fn = "f" THEN 1 ELSE 0

MemoryMB(fn) == IF fn = "f" THEN 1 ELSE 2

ContIDs == 1..MaxContainers

\* the tasks of SpecCore
Reqs == 1..MaxReq

\* the tasks of Spec and the requests of SpecSched
Tasks == 1..MaxTasks

VARIABLES
  AvailableCPUs,    \* Resources.AvailableCPUs
  AvailableMemMB,   \* Resources.AvailableMemMB
  DropCount,        \* Resources.DropCount
  ContainerPools,   \* Resources.ContainerPools: function name -> [ready, busy]
  live,             \* sandboxes the driver has created and not destroyed
  contMem,          \* memory the driver reports for each sandbox it created
  nextID,           \* next sandbox id the driver hands out
  toDelete,         \* ids handed to the detached destroyer of ShutdownWarmContainersFor
  now,              \* the clock
  req,              \* the requests and what the scheduler did with each
  terminated,       \* ShutdownAllContainers has run (node termination)
  deleted,          \* the functions DeleteFunction has removed from the registry
  issued,           \* the requests InvokeFunction has built: function, arrival, ReqId
  last,             \* the operation that produced this state, with its results
  lbProxy,          \* the LBProxy: policy, policy name, stats, targets and their status
  fwd,              \* the requests HandleRequest is forwarding
  lbRuns,           \* how many MAB cycles and target refreshes have run
  rw,               \* the RWMutex of Resources: readers, announced and holding writer
  serverStatus,     \* the calls of GetServerStatus: position and response
  writers,          \* the calls of AcquireResources that go through Lock step by step
  requestsPool,     \* api.requestsPool: the objects in the pool, the objects made
  objects,          \* the fields of every function.Request made by the pool
  calls             \* the calls of InvokeFunction that go through the pool

vars == <<AvailableCPUs, AvailableMemMB, DropCount, ContainerPools, live,
          contMem, nextID, toDelete, now, req, terminated, deleted, issued, last,
          lbProxy, fwd, lbRuns, rw, serverStatus, writers, requestsPool, objects, calls>>

\* the lock of Resources taken step by step, the status calls, and the
\* request pool of the API
handlers == <<rw, serverStatus, writers, requestsPool, objects, calls>>

\* the state of the API handlers and of the load balancer, which the
\* operations of the pool leave alone
apiAndLB == <<lbProxy, fwd, lbRuns, handlers>>

\* ------------------------------------------------------------- sequences
Range(s) == {s[i] : i \in 1..Len(s)}

\* the sum of val[x] over the x of S
RECURSIVE SumFn(_, _)
SumFn(val, S) ==
  IF S = {} THEN 0
  ELSE LET x == CHOOSE y \in S : TRUE IN val[x] + SumFn(val, S \ {x})

\* the entries of s at the positions of keep, in the order of s
KeepAt(s, keep) ==
  [k \in 1..Cardinality(keep) |->
     s[CHOOSE i \in keep : Cardinality({j \in keep : j <= i}) = k]]

\* every enumeration order of a Go map with key set S
Orders(S) ==
  {o \in [1..Cardinality(S) -> S] : \A i, j \in 1..Cardinality(S) : o[i] = o[j] => i = j}

\* ------------------------------------------------------------ the driver
\* container.GetMemoryMB: the memory the sandbox was created with
GetMemoryMB(cm, contID) == cm[contID]

\* container.Destroy fails when the driver fails for that sandbox (failing),
\* and on a sandbox that is already gone it either reports an error or not
\* (deadErr): the driver decides.
DestroyFails(lv, contID, failing, deadErr) ==
  \/ contID \in failing
  \/ contID \notin lv /\ deadErr

\* ------------------------------------------------------------- the pools
newFunctionPool == [ready |-> <<>>, busy |-> <<>>]

HasPool(pools, fn) == fn \in DOMAIN pools

\* getFunctionPool: the pool of fn, created empty when the map has none
getFunctionPool(pools, fn) ==
  IF HasPool(pools, fn) THEN pools
  ELSE [x \in DOMAIN pools \cup {fn} |-> IF x = fn THEN newFunctionPool ELSE pools[x]]

\* putBusyContainer that stores the entry without the name of the function
putBusyContainerUnnamed(fp, contID, funcName) ==
  [fp EXCEPT !.busy = Append(@, [Function |-> "", contID |-> contID])]

putBusyContainer(fp, contID, funcName) ==
  [fp EXCEPT !.busy = Append(@, [Function |-> funcName, contID |-> contID])]

\* putReadyContainer that pushes the entry to the front
putReadyContainerFront(fp, contID, funcName, expiration) ==
  [fp EXCEPT !.ready = <<[Expiration |-> expiration,
                          Function |-> funcName,
                          contID |-> contID]>> \o @]

putReadyContainer(fp, contID, funcName, expiration) ==
  [fp EXCEPT !.ready = Append(@, [Expiration |-> expiration,
                                   Function |-> funcName,
                                   contID |-> contID])]

\* getWarmContainer that takes the back ready entry
getWarmContainerTakesBack(fp, funcName) ==
  IF fp.ready = <<>> THEN [fp |-> fp, contID |-> 0, found |-> FALSE, noFunction |-> FALSE]
  ELSE IF Head(fp.ready).Function # funcName
    THEN [fp |-> fp, contID |-> 0, found |-> FALSE, noFunction |-> TRUE]
  ELSE [fp |-> putBusyContainer([fp EXCEPT !.ready = SubSeq(@, 1, Len(@) - 1)], fp.ready[Len(fp.ready)].contID, funcName),
        contID |-> fp.ready[Len(fp.ready)].contID, found |-> TRUE, noFunction |-> FALSE]

\* getWarmContainer that stores the sandbox as busy and leaves its ready entry
getWarmContainerKeepsReady(fp, funcName) ==
  IF fp.ready = <<>> THEN [fp |-> fp, contID |-> 0, found |-> FALSE, noFunction |-> FALSE]
  ELSE IF Head(fp.ready).Function # funcName
    THEN [fp |-> fp, contID |-> 0, found |-> FALSE, noFunction |-> TRUE]
  ELSE [fp |-> putBusyContainer(fp, Head(fp.ready).contID, funcName),
        contID |-> Head(fp.ready).contID, found |-> TRUE, noFunction |-> FALSE]

\* getWarmContainer: looks at the front ready entry only
getWarmContainer(fp, funcName) ==
  IF fp.ready = <<>> THEN [fp |-> fp, contID |-> 0, found |-> FALSE, noFunction |-> FALSE]
  ELSE IF Head(fp.ready).Function # funcName
    THEN [fp |-> fp, contID |-> 0, found |-> FALSE, noFunction |-> TRUE]
  ELSE LET contID == Head(fp.ready).contID
       IN [fp |-> putBusyContainer([fp EXCEPT !.ready = Tail(@)], contID, funcName),
           contID |-> contID, found |-> TRUE, noFunction |-> FALSE]

\* ------------------------------------------------------------- eviction
NoEviction ==
  [called |-> FALSE, need |-> 0, ok |-> FALSE, selected |-> <<>>,
   credited |-> 0, removed |-> {}, destroyed |-> {}, calls |-> <<>>]

\* dismissContainer, inner loop: every ready element of one pool is recorded
\* with the id and the memory of the FRONT element of that pool
RECURSIVE researchPool(_, _, _, _, _, _, _)
researchPool(fn, ready, i, contID, memory, required, acc) ==
  IF i > Len(ready) THEN acc
  ELSE LET item == [contID |-> contID, pool |-> fn, idx |-> i,
                    memory |-> memory, entry |-> ready[i].contID]
           acc2 == [items |-> Append(acc.items, item),
                    cleanedMB |-> acc.cleanedMB + memory]
       IN IF acc2.cleanedMB >= required THEN acc2
          ELSE researchPool(fn, ready, i + 1, contID, memory, required, acc2)

\* dismissContainer, first phase: walk the pools in the map's order until the
\* recorded memory reaches the requirement
RECURSIVE research(_, _, _, _, _, _)
\* after the inner loop left acc2 for pool k: goto cleanup, or the next pool
researchNext(pools, cm, order, k, required, acc2) ==
  IF acc2.cleanedMB >= required THEN acc2
  ELSE research(pools, cm, order, k + 1, required, acc2)

research(pools, cm, order, k, required, acc) ==
  IF k > Len(order) THEN acc
  ELSE LET ready == pools[order[k]].ready
           contID == Head(ready).contID
       IN IF Len(ready) > 0
          THEN researchNext(pools, cm, order, k, required,
                            researchPool(order[k], ready, 1, contID,
                                         GetMemoryMB(cm, contID), required, acc))
          ELSE research(pools, cm, order, k + 1, required, acc)

\* dismissContainer, second phase: remove the element, destroy the recorded
\* id, credit the recorded memory; the first failing Destroy returns false
RECURSIVE cleanup(_, _, _, _, _)
cleanup(items, j, st, failing, deadErr) ==
  IF j > Len(items) THEN [st EXCEPT !.ok = TRUE]
  ELSE LET item == items[j]
           st1 == [st EXCEPT !.removedAt = @ \cup {<<item.pool, item.idx>>},
                             !.removed = @ \cup {item.entry},
                             !.calls = Append(@, item.contID)]
       IN IF DestroyFails(st.live, item.contID, failing, deadErr)
          THEN [st1 EXCEPT !.ok = FALSE]
          ELSE cleanup(items, j + 1,
                       [st1 EXCEPT !.live = @ \ {item.contID},
                                   !.destroyed = @ \cup (st.live \cap {item.contID}),
                                   !.mem = @ + item.memory,
                                   !.credited = @ + item.memory],
                       failing, deadErr)

\* dismissContainer: what it returns and leaves behind, from what the
\* research phase found and the state st the cleanup phase ended in
dismissed(pools, requiredMemoryMB, found, st) ==
  [ok |-> st.ok,
   pools |-> [fn \in DOMAIN pools |->
                [pools[fn] EXCEPT !.ready =
                   KeepAt(@, {i \in 1..Len(@) : <<fn, i>> \notin st.removedAt})]],
   mem |-> st.mem,
   live |-> st.live,
   ev |-> [called |-> TRUE, need |-> requiredMemoryMB, ok |-> st.ok,
           selected |-> IF found.cleanedMB >= requiredMemoryMB
                        THEN found.items ELSE <<>>,
           credited |-> st.credited, removed |-> st.removed,
           destroyed |-> st.destroyed, calls |-> st.calls]]

\* dismissContainer whose second phase runs without the memory check
memoryCheckAlwaysCleans(pools, mem, lv, requiredMemoryMB, found, failing, deadErr) ==
  LET st0 == [ok |-> FALSE, mem |-> mem, live |-> lv, credited |-> 0,
              removedAt |-> {}, removed |-> {}, destroyed |-> {}, calls |-> <<>>]
  IN dismissed(pools, requiredMemoryMB, found,
               cleanup(found.items, 1, st0, failing, deadErr))

\* dismissContainer from the label cleanup on: the memory check, then the
\* second phase
memoryCheck(pools, mem, lv, requiredMemoryMB, found, failing, deadErr) ==
  LET st0 == [ok |-> FALSE, mem |-> mem, live |-> lv, credited |-> 0,
              removedAt |-> {}, removed |-> {}, destroyed |-> {}, calls |-> <<>>]
  IN dismissed(pools, requiredMemoryMB, found,
               IF found.cleanedMB >= requiredMemoryMB
               THEN cleanup(found.items, 1, st0, failing, deadErr)
               ELSE st0)

dismissContainer(pools, mem, lv, cm, requiredMemoryMB, order, failing, deadErr) ==
  memoryCheck(pools, mem, lv, requiredMemoryMB,
              research(pools, cm, order, 1, requiredMemoryMB,
                       [items |-> <<>>, cleanedMB |-> 0]),
              failing, deadErr)

\* -------------------------------------------------------------- the ledger
\* acquireResources after dismissContainer returned d
enoughMem(R, cpuDemand, memDemand, d) ==
  IF ~d.ok
  THEN [ok |-> FALSE, cpu |-> R.cpu, mem |-> d.mem,
        pools |-> d.pools, live |-> d.live, ev |-> d.ev]
  ELSE [ok |-> TRUE, cpu |-> R.cpu - cpuDemand, mem |-> d.mem - memDemand,
        pools |-> d.pools, live |-> d.live, ev |-> d.ev]

\* acquireResources that evicts also when the available memory equals the
\* demand
acquireResourcesEvictsAtEqual(R, cm, cpuDemand, memDemand, destroyContainersIfNeeded, order, failing, deadErr) ==
  LET refused == [ok |-> FALSE, cpu |-> R.cpu, mem |-> R.mem, pools |-> R.pools,
                  live |-> R.live, ev |-> NoEviction]
  IN IF R.cpu < cpuDemand THEN refused
     ELSE IF R.mem <= memDemand
       THEN IF ~destroyContainersIfNeeded THEN refused
            ELSE enoughMem(R, cpuDemand, memDemand,
                           dismissContainer(R.pools, R.mem, R.live, cm, memDemand,
                                            order, failing, deadErr))
     ELSE [ok |-> TRUE, cpu |-> R.cpu - cpuDemand, mem |-> R.mem - memDemand,
           pools |-> R.pools, live |-> R.live, ev |-> NoEviction]

\* acquireResources without the test of the available CPU
acquireResourcesNoCPUCheck(R, cm, cpuDemand, memDemand, destroyContainersIfNeeded, order, failing, deadErr) ==
  LET refused == [ok |-> FALSE, cpu |-> R.cpu, mem |-> R.mem, pools |-> R.pools,
                  live |-> R.live, ev |-> NoEviction]
  IN IF R.mem < memDemand
       THEN IF ~destroyContainersIfNeeded THEN refused
            ELSE LET d == dismissContainer(R.pools, R.mem, R.live, cm, memDemand,
                                           order, failing, deadErr)
                 IN IF ~d.ok
                    THEN [ok |-> FALSE, cpu |-> R.cpu, mem |-> d.mem,
                          pools |-> d.pools, live |-> d.live, ev |-> d.ev]
                    ELSE [ok |-> TRUE, cpu |-> R.cpu - cpuDemand,
                          mem |-> d.mem - memDemand,
                          pools |-> d.pools, live |-> d.live, ev |-> d.ev]
     ELSE [ok |-> TRUE, cpu |-> R.cpu - cpuDemand, mem |-> R.mem - memDemand,
           pools |-> R.pools, live |-> R.live, ev |-> NoEviction]

\* acquireResources that takes the CPU before it looks at the memory and
\* keeps it when the memory is refused
acquireResourcesKeepsCPU(R, cm, cpuDemand, memDemand, destroyContainersIfNeeded, order, failing, deadErr) ==
  LET refused == [ok |-> FALSE, cpu |-> R.cpu, mem |-> R.mem, pools |-> R.pools,
                  live |-> R.live, ev |-> NoEviction]
  IN IF R.cpu < cpuDemand THEN refused
     ELSE IF R.mem < memDemand
       THEN IF ~destroyContainersIfNeeded
            THEN [refused EXCEPT !.cpu = R.cpu - cpuDemand]
            ELSE LET d == dismissContainer(R.pools, R.mem, R.live, cm, memDemand,
                                           order, failing, deadErr)
                 IN IF ~d.ok
                    THEN [ok |-> FALSE, cpu |-> R.cpu - cpuDemand, mem |-> d.mem,
                          pools |-> d.pools, live |-> d.live, ev |-> d.ev]
                    ELSE [ok |-> TRUE, cpu |-> R.cpu - cpuDemand,
                          mem |-> d.mem - memDemand,
                          pools |-> d.pools, live |-> d.live, ev |-> d.ev]
     ELSE [ok |-> TRUE, cpu |-> R.cpu - cpuDemand, mem |-> R.mem - memDemand,
           pools |-> R.pools, live |-> R.live, ev |-> NoEviction]

\* acquireResources on the ledger [cpu, mem, pools, live]
acquireResources(R, cm, cpuDemand, memDemand, destroyContainersIfNeeded, order, failing, deadErr) ==
  LET refused == [ok |-> FALSE, cpu |-> R.cpu, mem |-> R.mem, pools |-> R.pools,
                  live |-> R.live, ev |-> NoEviction]
  IN IF R.cpu < cpuDemand THEN refused
     ELSE IF R.mem < memDemand
       THEN IF ~destroyContainersIfNeeded THEN refused
            ELSE enoughMem(R, cpuDemand, memDemand,
                           dismissContainer(R.pools, R.mem, R.live, cm, memDemand,
                                            order, failing, deadErr))
     ELSE [ok |-> TRUE, cpu |-> R.cpu - cpuDemand, mem |-> R.mem - memDemand,
           pools |-> R.pools, live |-> R.live, ev |-> NoEviction]

releaseResources(R, cpuDemand, memDemand) ==
  [R EXCEPT !.cpu = @ + cpuDemand, !.mem = @ + memDemand]

Ledger == [cpu |-> AvailableCPUs, mem |-> AvailableMemMB,
           pools |-> ContainerPools, live |-> live]

\* ------------------------------------------------------------ the requests
NoRequest ==
  [state |-> "idle", fun |-> "", canOff |-> FALSE, dec |-> "NONE",
   decides |-> 0, cont |-> 0, sched |-> ""]

\* a request that has left the scheduler is forgotten; how it ended is
\* in last.outcome
Stored(rq) ==
  IF rq.state \in {"dropped", "failed", "done"}
  THEN [NoRequest EXCEPT !.state = "ended"] ELSE rq

\* requests are numbered in the order they arrive
NextRequest(r) == \A q \in Reqs : q < r => req[q].state # "idle"

\* what the last operation was and what it returned
Did(op, r, fn, ok, outcome, ev) ==
  [op |-> op, r |-> r, fun |-> fn, ok |-> ok, outcome |-> outcome, ev |-> ev,
   reported |-> "none", canOff |-> FALSE]

\* --------------------------------------------------- the load balancer
\* the nodes a registry can list, and the lists getTargets can return
URLs == {"n1", "n2"}

TargetLists == {t \in UNION {[1..n -> URLs] : n \in 1..Cardinality(URLs)} :
                  \A i, j \in DOMAIN t : t[i] = t[j] => i = j}

\* the policies the MAB agent chooses from
Policies == {"Random", "RoundRobin"}

LBReqs == 1..MaxLBReq

\* getLBPolicy: the policy of a name
getLBPolicy(name) == name

\* SelectTarget of a policy: one of the targets of the proxy
SelectTarget(policy, targets, funName) == Range(targets)

\* getTargetStatus of the targets, at the refresh number k
StatusOf(targets, k) == [i \in DOMAIN targets |-> [Url |-> targets[i], at |-> k]]

\* newStats: empty statistics under the name of a policy
newStats(name) == [LBPolicy |-> name, completions |-> 0, failures |-> 0]

\* updateTargetsInfo: the status of every target is fetched and the list is
\* appended to the statuses the proxy holds
updateTargetsInfo(lbP, targets, k) ==
  [lbP EXCEPT !.targetsInfo.targetsStatus = @ \o StatusOf(targets, k)]

\* UpdateTargets
UpdateTargets(lbP, targets) == [lbP EXCEPT !.targetsInfo.targets = targets]

\* UpdateLBPolicy: the policy is installed and the new statistics are
\* labelled with the policy name of the proxy
UpdateLBPolicy(lbP, lbPolicy) ==
  [lbP EXCEPT !.lbPolicy = lbPolicy, !.newStats.LBPolicy = lbP.lbPolicyName]

\* the targets the registry lists when the proxy starts
InitTargets == <<"n1", "n2">>

\* StartReverseProxy: the proxy with the default policy
StartReverseProxy ==
  updateTargetsInfo([lbPolicy |-> getLBPolicy("Random"), lbPolicyName |-> "Random",
                     oldStats |-> newStats("Random"), newStats |-> newStats("Random"),
                     targetsInfo |-> [targets |-> InitTargets, targetsStatus |-> <<>>]],
                    InitTargets, 0)

\* the calls of GetServerStatus, of AcquireResources and of InvokeFunction
StatusCalls == 1..MaxStatus

Writers == 1..MaxWriters

Invs == 1..MaxInv

Objs == 1..MaxObjs

\* a call of GetServerStatus that has not started
NoStatus == [pc |-> "idle", warm |-> 0, mem |-> 0, cpu |-> 0, drops |-> 0]

\* new(function.Request): the zero value
ZeroRequest == [ReqId |-> 0, Async |-> FALSE]

\* a call of InvokeFunction that has not started
NoCall == [pc |-> "idle", r |-> 0, Async |-> FALSE, sched |-> "none", seen |-> 0]

NoForward == [state |-> "idle", backend |-> "", by |-> "", sent |-> "", status |-> ""]

Init ==
  /\ AvailableCPUs = InitCPU
  /\ AvailableMemMB = InitMem
  /\ DropCount = 0
  /\ ContainerPools = [fn \in {} |-> newFunctionPool]
  /\ live = {}
  /\ contMem = [c \in {} |-> 0]
  /\ nextID = 1
  /\ toDelete = {}
  /\ now = 0
  /\ req = [r \in Reqs |-> NoRequest]
  /\ terminated = FALSE
  /\ deleted = {}
  /\ issued = {}
  /\ last = Did("Init", 0, "", TRUE, "none", NoEviction)
  /\ lbProxy = StartReverseProxy
  /\ fwd = [q \in LBReqs |-> NoForward]
  /\ lbRuns = [cycles |-> 0, refreshes |-> 0]
  /\ rw = [readers |-> 0, writer |-> 0, announced |-> 0]
  /\ serverStatus = [s \in StatusCalls |-> NoStatus]
  /\ writers = [w \in Writers |-> "idle"]
  /\ requestsPool = [free |-> {}, made |-> 0]
  /\ objects = [o \in {} |-> ZeroRequest]
  /\ calls = [i \in Invs |-> NoCall]

\* dropRequest: the request is dropped and counted
dropRequest(rq) == [rq EXCEPT !.state = "dropped"]

\* handleCloudOffload: the request is forwarded and tagged OFFLOAD
handleCloudOffload(rq) == [rq EXCEPT !.state = "offloaded", !.sched = "OFFLOAD"]

\* execLocally: the request runs in the sandbox, tagged warm or cold
execLocally(rq, contID, warm) ==
  [rq EXCEPT !.state = "running", !.cont = contID,
             !.sched = IF warm THEN "LOCAL_WARM" ELSE "LOCAL_COLD"]

\* OnArrival that offloads after every failed cold start, and one that drops
coldStartFailedAlwaysOffload(rq) ==
  IF rq.dec = "NONE" THEN [rq EXCEPT !.state = "failed"]
  ELSE handleCloudOffload(rq)

coldStartFailedAlwaysDrop(rq) ==
  IF rq.dec = "NONE" THEN [rq EXCEPT !.state = "failed"]
  ELSE dropRequest(rq)

\* what follows a reservation or a creation that failed: OnArrival goes on
\* after handleColdStart returned false, a direct caller gives up
coldStartFailed(rq) ==
  IF rq.dec = "NONE" THEN [rq EXCEPT !.state = "failed"]
  ELSE IF rq.canOff THEN handleCloudOffload(rq)
  ELSE dropRequest(rq)

Dropped(rq) == IF rq.state = "dropped" THEN 1 ELSE 0

\* Decide: any of the three answers, OFFLOAD only when the request allows it
Decisions(canOff) ==
  {"EXECUTE_REQUEST", "DROP_REQUEST"} \cup (IF canOff THEN {"OFFLOAD_REQUEST"} ELSE {})

\* AcquireWarmContainer after acquireResources returned a for the warm
\* sandbox contID
warmAcquired(contID, a) ==
  IF ~a.ok
  THEN [ok |-> FALSE, err |-> "OutOfResources", contID |-> 0,
        cpu |-> a.cpu, mem |-> a.mem, pools |-> a.pools]
  ELSE [ok |-> TRUE, err |-> "", contID |-> contID,
        cpu |-> a.cpu, mem |-> a.mem, pools |-> a.pools]

\* AcquireWarmContainer(f) on the ledger
AcquireWarmContainer(R, cm, fn) ==
  LET pools1 == getFunctionPool(R.pools, fn)
      w == getWarmContainer(pools1[fn], fn)
      R1 == [R EXCEPT !.pools = [pools1 EXCEPT ![fn] = w.fp]]
  IN IF ~w.found
     THEN [ok |-> FALSE, err |-> IF w.noFunction THEN "NoFunction" ELSE "NoWarmFound",
           contID |-> 0, cpu |-> R1.cpu, mem |-> R1.mem, pools |-> R1.pools]
     ELSE warmAcquired(w.contID,
                       acquireResources(R1, cm, CPUDemand(fn), 0, FALSE, <<>>, {}, FALSE))

\* OnArrival whose DROP_REQUEST branch returns without dropRequest
decidedDropForgets(r, fn, canOff, dec, w) ==
  /\ LET rq == [req[r] EXCEPT !.fun = fn, !.canOff = canOff, !.dec = dec,
                              !.decides = @ + 1]
         rq2 == IF dec = "EXECUTE_REQUEST"
                THEN IF w.ok THEN execLocally(rq, w.contID, TRUE)
                     ELSE [rq EXCEPT !.state = "cold"]
                ELSE IF dec = "OFFLOAD_REQUEST" THEN handleCloudOffload(rq)
                ELSE [rq EXCEPT !.state = "returned"]
     IN /\ req' = [req EXCEPT ![r] = Stored(rq2)]
        /\ DropCount' = DropCount + Dropped(rq2)
        /\ IF dec = "EXECUTE_REQUEST"
           THEN /\ AvailableCPUs' = w.cpu
                /\ AvailableMemMB' = w.mem
                /\ ContainerPools' = w.pools
           ELSE UNCHANGED <<AvailableCPUs, AvailableMemMB, ContainerPools>>
        /\ last' = [Did("OnArrival", r, fn, dec = "EXECUTE_REQUEST" /\ w.ok,
                        rq2.state, NoEviction) EXCEPT !.canOff = canOff]
  /\ UNCHANGED <<live, contMem, nextID, toDelete, now, terminated, deleted, apiAndLB>>

\* OnArrival once Decide has answered dec and, for EXECUTE_REQUEST,
\* AcquireWarmContainer has returned w
decided(r, fn, canOff, dec, w) ==
  /\ LET rq == [req[r] EXCEPT !.fun = fn, !.canOff = canOff, !.dec = dec,
                              !.decides = @ + 1]
         rq2 == IF dec = "EXECUTE_REQUEST"
                THEN IF w.ok THEN execLocally(rq, w.contID, TRUE)
                     ELSE [rq EXCEPT !.state = "cold"]
                ELSE IF dec = "OFFLOAD_REQUEST" THEN handleCloudOffload(rq)
                ELSE IF dec = "DROP_REQUEST" THEN dropRequest(rq)
                ELSE rq
     IN /\ req' = [req EXCEPT ![r] = Stored(rq2)]
        /\ DropCount' = DropCount + Dropped(rq2)
        /\ IF dec = "EXECUTE_REQUEST"
           THEN /\ AvailableCPUs' = w.cpu
                /\ AvailableMemMB' = w.mem
                /\ ContainerPools' = w.pools
           ELSE UNCHANGED <<AvailableCPUs, AvailableMemMB, ContainerPools>>
        /\ last' = [Did("OnArrival", r, fn, dec = "EXECUTE_REQUEST" /\ w.ok,
                        rq2.state, NoEviction) EXCEPT !.canOff = canOff]
  /\ UNCHANGED <<live, contMem, nextID, toDelete, now, terminated, deleted, apiAndLB>>

\* OnArrival up to the return of AcquireWarmContainer
OnArrival(r, fn, canOff, dec) ==
  /\ ~terminated
  /\ req[r].state = "idle"
  /\ NextRequest(r)
  /\ decided(r, fn, canOff, dec, AcquireWarmContainer(Ledger, contMem, fn))
  /\ UNCHANGED issued

\* what a task does with the return w of AcquireWarmContainer(f)
warmReturned(r, fn, w) ==
  /\ LET rq2 == IF w.ok THEN execLocally([req[r] EXCEPT !.fun = fn], w.contID, TRUE)
                ELSE [req[r] EXCEPT !.state = "failed"]
     IN /\ req' = [req EXCEPT ![r] = Stored(rq2)]
        /\ AvailableCPUs' = w.cpu
        /\ AvailableMemMB' = w.mem
        /\ ContainerPools' = w.pools
        /\ last' = Did("AcquireWarmContainer", r, fn, w.ok, rq2.state, NoEviction)
  /\ UNCHANGED <<DropCount, live, contMem, nextID, toDelete, now, terminated, deleted, issued, apiAndLB>>

\* AcquireWarmContainer(f) called by a task of its own
AcquireWarm(r, fn) ==
  /\ ~terminated
  /\ req[r].state = "idle"
  /\ NextRequest(r)
  /\ warmReturned(r, fn, AcquireWarmContainer(Ledger, contMem, fn))

\* what the caller does with the return a of acquireResources
reserved(op, r, rq, a) ==
  LET rq2 == IF a.ok THEN [rq EXCEPT !.state = "creating"] ELSE coldStartFailed(rq)
  IN /\ AvailableCPUs' = a.cpu
     /\ AvailableMemMB' = a.mem
     /\ ContainerPools' = a.pools
     /\ live' = a.live
     /\ req' = [req EXCEPT ![r] = Stored(rq2)]
     /\ DropCount' = DropCount + Dropped(rq2)
     /\ last' = Did(op, r, rq.fun, a.ok, rq2.state, a.ev)
     /\ UNCHANGED <<contMem, nextID, toDelete, now, terminated, deleted, issued, apiAndLB>>

\* the reservation of a task: acquireResources under the lock
Reserve(op, r, rq, mayEvict, order, failing, deadErr) ==
  reserved(op, r, rq,
           acquireResources(Ledger, contMem, CPUDemand(rq.fun), MemoryMB(rq.fun),
                            mayEvict, order, failing, deadErr))

\* the sandboxes with a ready entry
Warm == UNION {{w.contID : w \in Range(ContainerPools[fn].ready)} : fn \in DOMAIN ContainerPools}

\* handleColdStart, first half: NewContainer up to the first Unlock
NewContainer(r, order, failing, deadErr) ==
  /\ ~terminated
  /\ req[r].state = "cold"
  /\ Reserve("NewContainer", r, req[r], TRUE, order, failing, deadErr)

\* AcquireResources(cpu, mem, mayEvict) called by a task of its own, for a
\* sandbox it creates afterwards with NewContainerWithAcquiredResources;
\* with mayEvict this is NewContainer
AcquireResources(r, fn, mayEvict, order, failing, deadErr) ==
  /\ ~terminated
  /\ req[r].state = "idle"
  /\ NextRequest(r)
  /\ Reserve("AcquireResources", r, [req[r] EXCEPT !.fun = fn], mayEvict,
             order, failing, deadErr)

\* NewContainerWithAcquiredResources: a function whose runtime is not in
\* RuntimeToInfo, and is not the custom one, is refused at once; otherwise
\* the driver creates the sandbox (or fails), then under the lock the
\* reservation is returned or the sandbox is stored as busy
NewContainerWithAcquiredResources(r, validRuntime, created) ==
  /\ ~terminated
  /\ req[r].state = "creating"
  /\ LET fn == req[r].fun IN
     IF ~validRuntime
     THEN LET rq2 == coldStartFailed(req[r])
          IN /\ req' = [req EXCEPT ![r] = Stored(rq2)]
             /\ DropCount' = DropCount + Dropped(rq2)
             /\ last' = Did("NewContainerWithAcquiredResources", r, fn, FALSE,
                            rq2.state, NoEviction)
             /\ UNCHANGED <<AvailableCPUs, AvailableMemMB, ContainerPools, live,
                            contMem, nextID>>
     ELSE IF created
     THEN /\ nextID <= MaxContainers
          /\ LET pools1 == getFunctionPool(ContainerPools, fn) IN
             ContainerPools' =
               [pools1 EXCEPT ![fn] = putBusyContainer(@, nextID, fn)]
          /\ live' = live \cup {nextID}
          /\ contMem' = [c \in DOMAIN contMem \cup {nextID} |->
                           IF c = nextID THEN MemoryMB(fn) ELSE contMem[c]]
          /\ nextID' = nextID + 1
          /\ req' = [req EXCEPT ![r] = execLocally(@, nextID, FALSE)]
          /\ last' = Did("NewContainerWithAcquiredResources", r, fn, TRUE,
                         "running", NoEviction)
          /\ UNCHANGED <<AvailableCPUs, AvailableMemMB, DropCount>>
     ELSE LET R == releaseResources(Ledger, CPUDemand(fn), MemoryMB(fn))
              rq2 == coldStartFailed(req[r])
          IN /\ AvailableCPUs' = R.cpu
             /\ AvailableMemMB' = R.mem
             /\ req' = [req EXCEPT ![r] = Stored(rq2)]
             /\ DropCount' = DropCount + Dropped(rq2)
             /\ last' = Did("NewContainerWithAcquiredResources", r, fn, FALSE,
                            rq2.state, NoEviction)
             /\ UNCHANGED <<ContainerPools, live, contMem, nextID>>
  /\ UNCHANGED <<toDelete, now, terminated, deleted, issued, apiAndLB>>

\* ReleaseContainer(contID, f) on the pools: the first busy element with the
\* id is removed, and a ready element is pushed whether or not one was found
ReleaseContainer(pools, contID, fn, expTime) ==
  LET pools1 == getFunctionPool(pools, fn)
      fp == pools1[fn]
      hits == {i \in 1..Len(fp.busy) : fp.busy[i].contID = contID}
      i == CHOOSE k \in hits : \A j \in hits : k <= j
      fName == IF hits = {} THEN fn ELSE fp.busy[i].Function
      fp1 == IF hits = {} THEN fp
             ELSE [fp EXCEPT !.busy = KeepAt(@, (1..Len(@)) \ {i})]
  IN [pools1 EXCEPT ![fn] = putReadyContainer(fp1, contID, fName, expTime)]

\* OnCompletion that reports every request as run locally
OnCompletionAlwaysLocal(rq) == "LOCAL"

\* OnCompletion: what the policy reports to the decision engine
OnCompletion(rq) == IF rq.sched = "OFFLOAD" THEN "OFFLOADED" ELSE "LOCAL"

\* the end of a local execution: ReleaseContainer, then OnCompletion for a
\* request that went through the policy. ReleaseContainer starts a goroutine
\* that sends on NodeDoneChan; sent tells whether the send has happened when
\* ReleaseContainer returns and its deferred Unlock has run
Complete(r, t, sent) ==
  /\ ~terminated
  /\ req[r].state = "running"
  /\ t = now
  /\ LET fn == req[r].fun
         R == releaseResources(Ledger, CPUDemand(fn), 0)
     IN /\ ContainerPools' = ReleaseContainer(ContainerPools, req[r].cont, fn,
                                              t + ExpirationTime)
        /\ AvailableCPUs' = R.cpu
        /\ AvailableMemMB' = R.mem
        /\ req' = [req EXCEPT ![r] =
                     Stored([@ EXCEPT !.state = IF sent THEN "done" ELSE "signalling"])]
        /\ last' = [Did("ReleaseContainer", r, fn, TRUE, "done", NoEviction)
                      EXCEPT !.reported = IF req[r].dec = "NONE" THEN "none"
                                          ELSE OnCompletion(req[r])]
  /\ UNCHANGED <<DropCount, live, contMem, nextID, toDelete, now, terminated, deleted, issued, apiAndLB>>

\* the goroutine of ReleaseContainer sends on NodeDoneChan after
\* ReleaseContainer has returned
NodeDone(r) ==
  /\ ~terminated
  /\ req[r].state = "signalling"
  /\ req' = [req EXCEPT ![r] = Stored([@ EXCEPT !.state = "done"])]
  /\ last' = Did("NodeDone", r, req[r].fun, TRUE, "done", NoEviction)
  /\ UNCHANGED <<AvailableCPUs, AvailableMemMB, DropCount, ContainerPools, live,
                 contMem, nextID, toDelete, now, terminated, deleted, issued, apiAndLB>>

\* the end of an offloaded execution: OnCompletion
CompleteOffload(r) ==
  /\ ~terminated
  /\ req[r].state = "offloaded"
  /\ req' = [req EXCEPT ![r] = Stored([@ EXCEPT !.state = "done"])]
  /\ last' = [Did("OnCompletion", r, req[r].fun, TRUE, "done", NoEviction)
                EXCEPT !.reported = OnCompletion(req[r])]
  /\ UNCHANGED <<AvailableCPUs, AvailableMemMB, DropCount, ContainerPools, live,
                 contMem, nextID, toDelete, now, terminated, deleted, issued, apiAndLB>>

\* the memory GetMemoryMB reports for the sandboxes of the entries of s
RECURSIVE MemoryOf(_, _)
MemoryOf(cm, s) ==
  IF s = <<>> THEN 0 ELSE GetMemoryMB(cm, Head(s).contID) + MemoryOf(cm, Tail(s))

\* the expiry test one tick late, and one tick early
ExpiredLate(t, w) == t > w.Expiration + 1

ExpiredEarly(t, w) == t >= w.Expiration

\* DeleteExpiredContainer: the test of one ready entry
Expired(t, w) == t > w.Expiration

\* the sandboxes of the ready entries that have expired at t
Gone(t) ==
  UNION {{w.contID : w \in {x \in Range(ContainerPools[fn].ready) : Expired(t, x)}} :
           fn \in DOMAIN ContainerPools}

\* DeleteExpiredContainer with the clock value t it read; Destroy fails for
\* the sandboxes of failing, which is logged and nothing else
DeleteExpiredContainer(t, failing) ==
  /\ ~terminated
  /\ t = now
  /\ LET gone == [fn \in DOMAIN ContainerPools |->
                    SelectSeq(ContainerPools[fn].ready, LAMBDA w : Expired(t, w))]
         freed == [fn \in DOMAIN ContainerPools |-> MemoryOf(contMem, gone[fn])]
         R == releaseResources(Ledger, 0, SumFn(freed, DOMAIN freed))
     IN /\ ContainerPools' =
             [fn \in DOMAIN ContainerPools |->
                [ContainerPools[fn] EXCEPT !.ready =
                   SelectSeq(@, LAMBDA w : ~Expired(t, w))]]
        /\ AvailableCPUs' = R.cpu
        /\ AvailableMemMB' = R.mem
        /\ live' = live \ (Gone(t) \ failing)
  /\ last' = Did("DeleteExpiredContainer", 0, "", failing = {}, "none",
                 [NoEviction EXCEPT !.removed = Gone(t)])
  /\ UNCHANGED <<DropCount, contMem, nextID, toDelete, now, req, terminated, deleted, issued, apiAndLB>>

\* ShutdownWarmContainersFor(f): the ready entries are removed and credited
\* under the lock, their ids are handed to a detached destroyer
ShutdownWarmContainersFor(fn) ==
  /\ ~terminated
  /\ IF ~HasPool(ContainerPools, fn)
     THEN UNCHANGED <<ContainerPools, AvailableMemMB, toDelete>>
     ELSE /\ ContainerPools' = [ContainerPools EXCEPT ![fn].ready = <<>>]
          /\ AvailableMemMB' =
               AvailableMemMB + MemoryOf(contMem, ContainerPools[fn].ready)
          /\ toDelete' = toDelete \cup {w.contID : w \in Range(ContainerPools[fn].ready)}
  /\ last' = Did("ShutdownWarmContainersFor", 0, fn, HasPool(ContainerPools, fn),
                 "none", NoEviction)
  /\ UNCHANGED <<AvailableCPUs, DropCount, live, contMem, nextID, now, req, terminated, issued, apiAndLB>>

\* the detached destroyer of ShutdownWarmContainersFor, one id at a time
DestroyDetached(contID, fails) ==
  /\ ~terminated
  /\ contID \in toDelete
  /\ toDelete' = toDelete \ {contID}
  /\ live' = IF fails THEN live ELSE live \ {contID}
  /\ last' = Did("Destroy", 0, "", ~fails, "none", NoEviction)
  /\ UNCHANGED <<AvailableCPUs, AvailableMemMB, DropCount, ContainerPools,
                 contMem, nextID, now, req, terminated, deleted, issued, apiAndLB>>

\* ShutdownAllContainers: every ready element is removed, destroyed and
\* credited; every busy element is destroyed and credited, and the element
\* is asked to be removed from the READY list, which leaves the busy list
\* as it was
ShutdownAllContainers(failing) ==
  /\ ~terminated
  /\ LET readyIDs(fn) == {w.contID : w \in Range(ContainerPools[fn].ready)}
         busyOK(fn) == SelectSeq(ContainerPools[fn].busy,
                                 LAMBDA b : b.contID \notin failing)
         freedMem == [fn \in DOMAIN ContainerPools |->
                        MemoryOf(contMem, ContainerPools[fn].ready)
                        + MemoryOf(contMem, busyOK(fn))]
         freedCPU == [fn \in DOMAIN ContainerPools |-> Len(busyOK(fn)) * CPUDemand(fn)]
     IN /\ ContainerPools' =
             [fn \in DOMAIN ContainerPools |->
                [ContainerPools[fn] EXCEPT !.ready = <<>>]]
        /\ AvailableMemMB' = AvailableMemMB + SumFn(freedMem, DOMAIN freedMem)
        /\ AvailableCPUs' = AvailableCPUs + SumFn(freedCPU, DOMAIN freedCPU)
        /\ live' = live \ (UNION {readyIDs(fn) \cup {b.contID : b \in Range(busyOK(fn))} :
                                   fn \in DOMAIN ContainerPools} \ failing)
  /\ terminated' = TRUE
  /\ last' = Did("ShutdownAllContainers", 0, "", failing = {}, "none", NoEviction)
  /\ UNCHANGED <<DropCount, contMem, nextID, toDelete, now, req, deleted, issued, apiAndLB>>

\* ------------------------------------------------------------- the API
\* the identifier of the node, as a sequence of characters
NodeIdentifier == <<"n", "o", "d", "e", "-", "a", "1">>

\* time.Time.Nanosecond(): the nanosecond offset within the second
Nanosecond(t) == t % NanosPerSecond

\* the request id of InvokeFunction: the name of the function, the last five
\* characters of the node identifier and the nanosecond offset of the arrival
ReqId(fun, arrival) ==
  <<fun, SubSeq(NodeIdentifier, Len(NodeIdentifier) - 4, Len(NodeIdentifier)),
    Nanosecond(arrival)>>

\* InvokeFunction for a registered function: the request is built with the
\* arrival time read from the clock, ns nanoseconds into the second now, and
\* with its id, and is submitted to the policy
InvokeFunction(r, fn, ns, canOff, dec) ==
  /\ ~terminated
  /\ fn \notin deleted
  /\ req[r].state = "idle"
  /\ NextRequest(r)
  /\ issued' = issued \cup {[fun |-> fn, Arrival |-> now * NanosPerSecond + ns,
                              ReqId |-> ReqId(fn, now * NanosPerSecond + ns)]}
  /\ decided(r, fn, canOff, dec, AcquireWarmContainer(Ledger, contMem, fn))

\* DeleteFunction for a registered function: the function leaves the
\* registry, then ShutdownWarmContainersFor
DeleteFunction(fn) ==
  /\ fn \notin deleted
  /\ deleted' = deleted \cup {fn}
  /\ ShutdownWarmContainersFor(fn)

Tick ==
  /\ ~terminated
  /\ now < MaxTime
  /\ now' = now + 1
  /\ last' = Did("Tick", 0, "", TRUE, "none", NoEviction)
  /\ UNCHANGED <<AvailableCPUs, AvailableMemMB, DropCount, ContainerPools, live,
                 contMem, nextID, toDelete, req, terminated, deleted, issued, apiAndLB>>

\* ------------------------------------------- the load balancer at work
\* the state of the node, which the load balancer leaves alone
nodeVars == <<AvailableCPUs, AvailableMemMB, DropCount, ContainerPools, live,
              contMem, nextID, toDelete, now, req, terminated, deleted, issued,
              handlers>>

\* requests reach the proxy in the order of their numbers
NextForward(q) == \A p \in LBReqs : p < q => fwd[p].state # "idle"

\* HandleRequest that asks the policy again when it builds the request
backendReselected(rq, lbP) == lbP.targetsInfo.targets[1]

\* HandleRequest: the backend the request is built for is the one
\* SelectBackend returned
backendOf(rq, lbP) == rq.backend

\* HandleRequest, first step: SelectBackend under the read lock
SelectBackend(q, funName, target) ==
  /\ fwd[q].state = "idle"
  /\ NextForward(q)
  /\ target \in SelectTarget(lbProxy.lbPolicy, lbProxy.targetsInfo.targets, funName)
  /\ fwd' = [fwd EXCEPT ![q] = [@ EXCEPT !.state = "selected", !.backend = target,
                                         !.by = lbProxy.lbPolicy]]
  /\ last' = Did("SelectBackend", q, funName, TRUE, "none", NoEviction)
  /\ UNCHANGED <<nodeVars, lbProxy, lbRuns>>

\* HandleRequest, second step: the request is sent to the backend, with no
\* lock held; the backend answers 200 or another status, or the call fails
\* and HandleRequest returns the error
HandleRequest(q, status) ==
  /\ fwd[q].state = "selected"
  /\ fwd' = [fwd EXCEPT ![q] = [@ EXCEPT !.state = IF status = "error" THEN "done"
                                                   ELSE "answered",
                                         !.sent = backendOf(fwd[q], lbProxy),
                                         !.status = status]]
  /\ last' = Did("HandleRequest", q, "", status # "error", "none", NoEviction)
  /\ UNCHANGED <<nodeVars, lbProxy, lbRuns>>

\* HandleRequest, last step: updateStats under the write lock, for a
\* success or for a failure
updateStats(q) ==
  /\ fwd[q].state = "answered"
  /\ fwd' = [fwd EXCEPT ![q].state = "done"]
  /\ lbProxy' = IF fwd[q].status = "200"
                THEN [lbProxy EXCEPT !.newStats.completions = @ + 1]
                ELSE [lbProxy EXCEPT !.newStats.failures = @ + 1]
  /\ last' = Did("updateStats", q, "", TRUE, "none", NoEviction)
  /\ UNCHANGED <<nodeVars, lbRuns>>

\* startMABAgent, one cycle under the write lock: the agent is updated with
\* the statistics, newStats is copied to oldStats, the agent selects
\* bestPolicy and the policy is installed
startMABAgent(bestPolicy) ==
  /\ lbRuns.cycles < MaxCycles
  /\ lbRuns' = [lbRuns EXCEPT !.cycles = @ + 1]
  /\ lbProxy' = UpdateLBPolicy([lbProxy EXCEPT !.oldStats = lbProxy.newStats],
                               getLBPolicy(bestPolicy))
  /\ last' = Did("startMABAgent", 0, bestPolicy, TRUE, "none", NoEviction)
  /\ UNCHANGED <<nodeVars, fwd>>

\* compareURLTargets: the two lists name the same nodes
compareURLTargets(a, b) == Range(a) = Range(b)

\* updateTargets, one round: the registry lists targets; under the write
\* lock the list is installed when it differs, and the statuses are fetched
updateTargets(targets) ==
  /\ lbRuns.refreshes < MaxRefresh
  /\ lbRuns' = [lbRuns EXCEPT !.refreshes = @ + 1]
  /\ lbProxy' = updateTargetsInfo(IF ~compareURLTargets(lbProxy.targetsInfo.targets, targets)
                                  THEN UpdateTargets(lbProxy, targets) ELSE lbProxy,
                                  targets, lbRuns.refreshes + 1)
  /\ last' = Did("updateTargets", 0, "", TRUE, "none", NoEviction)
  /\ UNCHANGED <<nodeVars, fwd>>

\* ------------------------------------- the lock of Resources, step by step
\* sync.RWMutex: RLock goes through only while no writer holds the lock or
\* has announced itself in Lock; otherwise the reader sleeps until that
\* writer's Unlock
RLockFree == rw.writer = 0 /\ rw.announced = 0

\* RLock by the status call s: taken at once (pc becomes held), or the
\* call sleeps (pc becomes waiting)
RLock(s, held, waiting) ==
  IF RLockFree
  THEN /\ rw' = [rw EXCEPT !.readers = @ + 1]
       /\ serverStatus' = [serverStatus EXCEPT ![s].pc = held]
  ELSE /\ serverStatus' = [serverStatus EXCEPT ![s].pc = waiting]
       /\ UNCHANGED rw

\* RUnlock: one reader less; the announced writer goes on when none is left
RUnlock == [rw EXCEPT !.readers = @ - 1]

\* the status calls asleep in RLock
Sleeping == {s \in StatusCalls : serverStatus[s].pc \in {"waitOuter", "waitInner"}}

\* the writer's Unlock lets every sleeping reader take the read lock
Woken(st) ==
  [s \in StatusCalls |->
     IF st[s].pc = "waitOuter" THEN [st[s] EXCEPT !.pc = "outer"]
     ELSE IF st[s].pc = "waitInner" THEN [st[s] EXCEPT !.pc = "inner"]
     ELSE st[s]]

\* what the handlers of this section leave alone
statusFrame ==
  UNCHANGED <<DropCount, contMem, nextID, toDelete, now, req, terminated, deleted,
              issued, lbProxy, fwd, lbRuns, requestsPool, objects, calls>>

\* GetServerStatus, first line: node.Resources.RLock()
GetServerStatus(s) ==
  /\ serverStatus[s].pc = "idle"
  /\ RLock(s, "outer", "waitOuter")
  /\ last' = Did("GetServerStatus", s, "", TRUE, "none", NoEviction)
  /\ UNCHANGED <<AvailableCPUs, AvailableMemMB, ContainerPools, live, writers>>
  /\ statusFrame

\* WarmStatus, called by GetServerStatus with the read lock held:
\* Resources.RLock() again
WarmStatusRLock(s) ==
  /\ serverStatus[s].pc = "outer"
  /\ RLock(s, "inner", "waitInner")
  /\ last' = Did("WarmStatus", s, "", TRUE, "none", NoEviction)
  /\ UNCHANGED <<AvailableCPUs, AvailableMemMB, ContainerPools, live, writers>>
  /\ statusFrame

\* the number of ready sandboxes of every pool
warmPool(pools) == [fn \in DOMAIN pools |-> Len(pools[fn].ready)]

\* WarmStatus: the ready sandboxes are counted and the read lock is
\* released once
WarmStatus(s) ==
  /\ serverStatus[s].pc = "inner"
  /\ serverStatus' = [serverStatus EXCEPT ![s].pc = "counted",
                                          ![s].warm = warmPool(ContainerPools)]
  /\ rw' = RUnlock
  /\ last' = Did("WarmStatus", s, "", TRUE, "none", NoEviction)
  /\ UNCHANGED <<AvailableCPUs, AvailableMemMB, ContainerPools, live, writers>>
  /\ statusFrame

\* GetServerStatus, the rest: the ledger is read into the response and the
\* deferred RUnlock runs
StatusResponse(s) ==
  /\ serverStatus[s].pc = "counted"
  /\ serverStatus' = [serverStatus EXCEPT ![s].pc = "done",
                                          ![s].mem = AvailableMemMB,
                                          ![s].cpu = AvailableCPUs,
                                          ![s].drops = DropCount]
  /\ rw' = RUnlock
  /\ last' = Did("GetServerStatus", s, "", TRUE, "none", NoEviction)
  /\ UNCHANGED <<AvailableCPUs, AvailableMemMB, ContainerPools, live, writers>>
  /\ statusFrame

\* AcquireResources, first line: Resources.Lock().  One writer at a time
\* gets past the writers' mutex; it holds the lock at once when there is no
\* reader, otherwise it has announced itself and sleeps until the readers
\* that hold the lock have released it
Lock(w) ==
  /\ writers[w] = "idle"
  /\ RLockFree
  /\ IF rw.readers = 0
     THEN /\ rw' = [rw EXCEPT !.writer = w]
          /\ writers' = [writers EXCEPT ![w] = "held"]
     ELSE /\ rw' = [rw EXCEPT !.announced = w]
          /\ writers' = [writers EXCEPT ![w] = "announced"]
  /\ last' = Did("Lock", w, "", TRUE, "none", NoEviction)
  /\ UNCHANGED <<AvailableCPUs, AvailableMemMB, ContainerPools, live, serverStatus>>
  /\ statusFrame

\* the last reader has gone: the announced writer holds the lock
LockGranted(w) ==
  /\ writers[w] = "announced"
  /\ rw.announced = w
  /\ rw.readers = 0
  /\ rw' = [rw EXCEPT !.writer = w, !.announced = 0]
  /\ writers' = [writers EXCEPT ![w] = "held"]
  /\ last' = Did("Lock", w, "", TRUE, "none", NoEviction)
  /\ UNCHANGED <<AvailableCPUs, AvailableMemMB, ContainerPools, live, serverStatus>>
  /\ statusFrame

\* AcquireResources with the lock held: acquireResources, then the
\* deferred Unlock, which wakes the readers asleep in RLock
LockedAcquireResources(w, fn, mayEvict, order, failing, deadErr) ==
  /\ writers[w] = "held"
  /\ rw.writer = w
  /\ LET a == acquireResources(Ledger, contMem, CPUDemand(fn), MemoryMB(fn),
                               mayEvict, order, failing, deadErr)
     IN /\ AvailableCPUs' = a.cpu
        /\ AvailableMemMB' = a.mem
        /\ ContainerPools' = a.pools
        /\ live' = a.live
        /\ last' = Did("AcquireResources", w, fn, a.ok, "none", a.ev)
  /\ rw' = [rw EXCEPT !.writer = 0, !.readers = @ + Cardinality(Sleeping)]
  /\ serverStatus' = Woken(serverStatus)
  /\ writers' = [writers EXCEPT ![w] = "done"]
  /\ statusFrame

\* ------------------------------------------- the request pool of the API
\* sync.Pool.Get: an object of the pool, or a new one from New
Gettable == requestsPool.free \cup
              (IF requestsPool.made < MaxObjs THEN {requestsPool.made + 1} ELSE {})

\* sync.Pool.Put
Put(pool, o) == [pool EXCEPT !.free = @ \cup {o}]

\* what the handlers of this section leave alone
poolFrame ==
  UNCHANGED <<AvailableCPUs, AvailableMemMB, DropCount, ContainerPools, live,
              contMem, nextID, toDelete, now, req, terminated, deleted, issued,
              lbProxy, fwd, lbRuns, rw, serverStatus, writers>>

\* InvokeFunction up to the test of r.Async: r is taken from the pool (or
\* made), Put is deferred, and the fields of r are written
BuildRequest(i, o, async) ==
  /\ calls[i].pc = "idle"
  /\ o \in Gettable
  /\ requestsPool' = [free |-> requestsPool.free \ {o},
                      made |-> IF o \in requestsPool.free THEN requestsPool.made
                               ELSE requestsPool.made + 1]
  /\ objects' = [x \in DOMAIN objects \cup {o} |->
                   IF x = o THEN [ReqId |-> i, Async |-> async] ELSE objects[x]]
  /\ calls' = [calls EXCEPT ![i].pc = "built", ![i].r = o, ![i].Async = async]
  /\ last' = Did("InvokeFunction", i, "", TRUE, "none", NoEviction)
  /\ poolFrame

\* InvokeFunction, r.Async: the scheduling goes on in a goroutine of its
\* own, the handler answers with the ReqId and returns, the deferred Put
\* puts r back into the pool
AsyncReturn(i) ==
  /\ calls[i].pc = "built"
  /\ objects[calls[i].r].Async
  /\ calls' = [calls EXCEPT ![i].pc = "returned", ![i].sched = "running"]
  /\ requestsPool' = Put(requestsPool, calls[i].r)
  /\ last' = Did("InvokeFunction", i, "", TRUE, "none", NoEviction)
  /\ UNCHANGED objects
  /\ poolFrame

\* InvokeFunction, not r.Async: SubmitRequest(r) is called and the handler
\* waits for it
SubmitRequest(i) ==
  /\ calls[i].pc = "built"
  /\ ~objects[calls[i].r].Async
  /\ calls' = [calls EXCEPT ![i].pc = "submitted", ![i].sched = "running"]
  /\ last' = Did("SubmitRequest", i, "", TRUE, "none", NoEviction)
  /\ UNCHANGED <<requestsPool, objects>>
  /\ poolFrame

\* the scheduling of the request of call i ends: it reports under the
\* fields it finds in its r
Scheduled(i) ==
  /\ calls[i].sched = "running"
  /\ calls' = [calls EXCEPT ![i].sched = "done", ![i].seen = objects[calls[i].r].ReqId]
  /\ last' = Did("Scheduled", i, "", TRUE, "none", NoEviction)
  /\ UNCHANGED <<requestsPool, objects>>
  /\ poolFrame

\* InvokeFunction, not r.Async: SubmitRequest has returned, the handler
\* answers and returns, the deferred Put puts r back into the pool
SyncReturn(i) ==
  /\ calls[i].pc = "submitted"
  /\ calls[i].sched = "done"
  /\ calls' = [calls EXCEPT ![i].pc = "returned"]
  /\ requestsPool' = Put(requestsPool, calls[i].r)
  /\ last' = Did("InvokeFunction", i, "", TRUE, "none", NoEviction)
  /\ UNCHANGED objects
  /\ poolFrame

\* ------------------------------------------------------- specifications
\* what the environment decides in an eviction: the enumeration order of the
\* pool map and the outcome of each Destroy; one fixed choice when the
\* reservation cannot reach dismissContainer
Evictions(fn, mayEvict) ==
  IF mayEvict /\ AvailableCPUs >= CPUDemand(fn) /\ AvailableMemMB < MemoryMB(fn)
  THEN Orders(DOMAIN ContainerPools) \X (SUBSET Warm) \X BOOLEAN
  ELSE {<<CHOOSE o \in Orders(DOMAIN ContainerPools) : TRUE, {}, FALSE>>}

Arrive == \E r \in Tasks, fn \in Funcs, canOff \in BOOLEAN :
            \E dec \in Decisions(canOff) : OnArrival(r, fn, canOff, dec)

ColdStart == \E r \in Reqs : \E e \in Evictions(req[r].fun, TRUE) :
               NewContainer(r, e[1], e[2], e[3])

WarmStart(T) == \E r \in T, fn \in Funcs : AcquireWarm(r, fn)

DirectReserve(T) == \E r \in T, fn \in Funcs, mayEvict \in BOOLEAN :
                      \E e \in Evictions(fn, mayEvict) :
                        AcquireResources(r, fn, mayEvict, e[1], e[2], e[3])

\* the functions registered through CreateFunction have a runtime of
\* RuntimeToInfo or the custom one
Create == \E r \in Reqs, created \in BOOLEAN :
            NewContainerWithAcquiredResources(r, TRUE, created)

Finish == \E r \in Reqs : Complete(r, now, TRUE)

FinishOffload == \E r \in Reqs : CompleteOffload(r)

Sweep == \E failing \in SUBSET Gone(now) : DeleteExpiredContainer(now, failing)

ShutdownWarm == \E fn \in Funcs : ShutdownWarmContainersFor(fn) /\ UNCHANGED deleted

Detached == \E contID \in ContIDs, fails \in BOOLEAN : DestroyDetached(contID, fails)

ShutdownAll == \E failing \in SUBSET live : ShutdownAllContainers(failing)

\* the operations of the node package, called by tasks
Next ==
  \/ WarmStart(Tasks)
  \/ DirectReserve(Tasks)
  \/ Create
  \/ Finish
  \/ Sweep
  \/ ShutdownWarm
  \/ Detached
  \/ ShutdownAll
  \/ Tick

\* the same without the shutdown paths
NextCore ==
  \/ WarmStart(Reqs)
  \/ DirectReserve(Reqs)
  \/ Create
  \/ Finish
  \/ Sweep
  \/ Tick

\* the requests going through the policy
NextSched ==
  \/ Arrive
  \/ ColdStart
  \/ Create
  \/ Finish
  \/ FinishOffload

\* the requests coming through the API, with functions deleted while they
\* run, functions of any runtime and the node-done signal sent by its
\* goroutine
Invoke == \E r \in Tasks, fn \in Funcs, ns \in 0..(NanosPerSecond - 1), canOff \in BOOLEAN :
            \E dec \in Decisions(canOff) : InvokeFunction(r, fn, ns, canOff, dec)

CreateAnyRuntime == \E r \in Reqs, validRuntime \in BOOLEAN, created \in BOOLEAN :
                      NewContainerWithAcquiredResources(r, validRuntime, created)

FinishAsync == \E r \in Reqs, sent \in BOOLEAN : Complete(r, now, sent)

Signal == \E r \in Reqs : NodeDone(r)

Delete == \E fn \in Funcs : DeleteFunction(fn)

NextApi ==
  \/ Invoke
  \/ ColdStart
  \/ CreateAnyRuntime
  \/ FinishAsync
  \/ Signal
  \/ FinishOffload
  \/ Delete
  \/ Detached
  \/ Tick

\* the load balancer: requests forwarded while the agent swaps the policy
\* and the targets are refreshed
Select == \E q \in LBReqs, fn \in Funcs, target \in URLs : SelectBackend(q, fn, target)

Forward == \E q \in LBReqs, status \in {"200", "500", "error"} : HandleRequest(q, status)

Stats == \E q \in LBReqs : updateStats(q)

MABCycle == \E bestPolicy \in Policies : startMABAgent(bestPolicy)

Refresh == \E targets \in TargetLists : updateTargets(targets)

NextLB ==
  \/ Select
  \/ Forward
  \/ Stats
  \/ MABCycle
  \/ Refresh

\* the status calls next to the writers of the ledger, the lock taken step
\* by step
StatusStart == \E s \in StatusCalls : GetServerStatus(s)

StatusWarmLock == \E s \in StatusCalls : WarmStatusRLock(s)

StatusWarm == \E s \in StatusCalls : WarmStatus(s)

StatusEnd == \E s \in StatusCalls : StatusResponse(s)

WriterLock == \E w \in Writers : Lock(w)

WriterGranted == \E w \in Writers : LockGranted(w)

WriterAcquire == \E w \in Writers, fn \in Funcs, mayEvict \in BOOLEAN :
                   \E e \in Evictions(fn, mayEvict) :
                     LockedAcquireResources(w, fn, mayEvict, e[1], e[2], e[3])

NextStatus ==
  \/ StatusStart
  \/ StatusWarmLock
  \/ StatusWarm
  \/ StatusEnd
  \/ WriterLock
  \/ WriterGranted
  \/ WriterAcquire

SpecStatus == Init /\ [][NextStatus]_vars

\* the invocations that take their request object from the pool
Build == \E i \in Invs, o \in Objs, async \in BOOLEAN : BuildRequest(i, o, async)

AnswerAsync == \E i \in Invs : AsyncReturn(i)

Submit == \E i \in Invs : SubmitRequest(i)

SchedulingEnds == \E i \in Invs : Scheduled(i)

AnswerSync == \E i \in Invs : SyncReturn(i)

NextPool ==
  \/ Build
  \/ AnswerAsync
  \/ Submit
  \/ SchedulingEnds
  \/ AnswerSync

SpecPool == Init /\ [][NextPool]_vars

Spec == Init /\ [][Next]_vars

SpecLB == Init /\ [][NextLB]_vars

SpecApi == Init /\ [][NextApi]_vars

SpecCore == Init /\ [][NextCore]_vars

SpecSched == Init /\ [][NextSched]_vars

TypeOK ==
  /\ AvailableCPUs \in Int
  /\ AvailableMemMB \in Int
  /\ nextID \in 1..(MaxContainers + 1)
  /\ live \subseteq ContIDs
  /\ now \in 0..MaxTime

\* ------------------------------------------------------------ the claims
\* every entry of every collection, as <<function, collection, position>>
Entries ==
  UNION {{<<fn, "ready", i>> : i \in 1..Len(ContainerPools[fn].ready)}
         \cup {<<fn, "busy", i>> : i \in 1..Len(ContainerPools[fn].busy)} :
           fn \in DOMAIN ContainerPools}

EntryAt(e) ==
  IF e[2] = "ready" THEN ContainerPools[e[1]].ready[e[3]]
  ELSE ContainerPools[e[1]].busy[e[3]]

Busy == {e \in Entries : e[2] = "busy"}

Creating == {r \in Reqs : req[r].state = "creating"}

\* CPU and memory held by the live sandboxes and by the reservations whose
\* sandbox is being created
HeldCPU ==
  SumFn([e \in Busy |-> IF EntryAt(e).contID \in live
                        THEN CPUDemand(EntryAt(e).Function) ELSE 0], Busy)
  + SumFn([r \in Creating |-> CPUDemand(req[r].fun)], Creating)

HeldMem ==
  SumFn([c \in live |-> contMem[c]], live)
  + SumFn([r \in Creating |-> MemoryMB(req[r].fun)], Creating)

\* C1: available CPU plus the CPU reserved by the live sandboxes is the
\* initial CPU, and available memory plus the memory reserved by the live
\* sandboxes is the initial memory, after any sequence of AcquireWarmContainer,
\* NewContainer, ReleaseContainer, eviction and DeleteExpiredContainer
C1_ResourceConservation ==
  /\ AvailableCPUs + HeldCPU = InitCPU
  /\ AvailableMemMB + HeldMem = InitMem

\* C2: available CPU and available memory are never negative
C2_NeverNegative ==
  /\ AvailableCPUs >= 0
  /\ AvailableMemMB >= 0

\* a reservation has just taken the last CPU share and the last of the
\* memory
C2_Witness ==
  /\ last.op = "AcquireResources"
  /\ last.ok
  /\ AvailableCPUs = 0
  /\ AvailableMemMB = 0

\* C3: every sandbox id is in at most one entry of all the ready and busy
\* collections of all the pools
C3_OneEntryPerSandbox ==
  \A e1, e2 \in Entries : EntryAt(e1).contID = EntryAt(e2).contID => e1 = e2

\* a sandbox has gone from busy back to ready while the pools hold a ready
\* and a busy entry and entries of two functions
C3_Witness ==
  /\ last.op = "ReleaseContainer"
  /\ \E e1, e2 \in Entries : e1[2] = "ready" /\ e2[2] = "busy"
  /\ \E e1, e2 \in Entries : e1[1] # e2[1]

\* C4: every entry of a ready or busy collection refers to a sandbox that
\* has been created and not destroyed
C4_EntriesAreLive ==
  \A e \in Entries : EntryAt(e).contID \in live

\* C5: an eviction either credits at least the memory it was asked for,
\* removes exactly the entries it selected and destroys exactly their
\* sandboxes, each with one Destroy, or credits nothing, removes nothing and
\* destroys nothing
C5_EvictionAllOrNothing ==
  last.ev.called =>
    LET sel == {it.entry : it \in Range(last.ev.selected)} IN
    \/ /\ last.ev.credited >= last.ev.need
       /\ last.ev.removed = sel
       /\ last.ev.destroyed = sel
       /\ Range(last.ev.calls) = sel
       /\ Len(last.ev.calls) = Cardinality(sel)
    \/ /\ last.ev.credited = 0
       /\ last.ev.removed = {}
       /\ last.ev.destroyed = {}

\* C6: a reservation that returns true has deducted exactly the CPU and the
\* memory asked for, after the credit of the evicted memory; one that returns
\* false has deducted neither
C6_NeverPartiallyReserves ==
  [][last'.op \in {"AcquireResources", "NewContainer"} =>
       /\ last'.ok =>
            /\ AvailableCPUs' = AvailableCPUs - CPUDemand(last'.fun)
            /\ AvailableMemMB' =
                 AvailableMemMB + last'.ev.credited - MemoryMB(last'.fun)
       /\ ~last'.ok =>
            /\ AvailableCPUs' = AvailableCPUs
            /\ AvailableMemMB' = AvailableMemMB + last'.ev.credited]_vars

\* a reservation has been refused for lack of memory, with CPU to spare and
\* eviction not allowed or not sufficient
C6_Witness ==
  /\ last.op = "AcquireResources"
  /\ ~last.ok
  /\ AvailableCPUs >= CPUDemand(last.fun)
  /\ CPUDemand(last.fun) > 0

\* the ready entries of all pools
Ready == {e \in Entries : e[2] = "ready"}

\* C7: right after DeleteExpiredContainer has run at time now, every ready
\* entry still in a pool has an expiration of now or later
C7_NoExpiredEntryLeft ==
  last.op = "DeleteExpiredContainer" =>
    \A e \in Ready : EntryAt(e).Expiration >= now

\* a sweep has removed an entry and left another one
C7_Witness ==
  /\ last.op = "DeleteExpiredContainer"
  /\ last.ev.removed # {}
  /\ Ready # {}

\* the ready entries whose expiration is earlier than now
Overdue == {e \in Ready : EntryAt(e).Expiration < now}

\* what DeleteExpiredContainer does to the pools and to the ledger: the
\* overdue entries go, their memory is credited once each, the other ready
\* entries, the busy entries and the CPU stay
SweepFrame ==
  /\ DOMAIN ContainerPools' = DOMAIN ContainerPools
  /\ \A fn \in DOMAIN ContainerPools :
       /\ ContainerPools'[fn].ready =
            SelectSeq(ContainerPools[fn].ready, LAMBDA w : ~(w.Expiration < now))
       /\ ContainerPools'[fn].busy = ContainerPools[fn].busy
  /\ AvailableCPUs' = AvailableCPUs
  /\ AvailableMemMB' =
       AvailableMemMB + SumFn([e \in Overdue |-> contMem[EntryAt(e).contID]], Overdue)

Starved == AvailableCPUs = 0 /\ Ready = {}

\* an arrival that cannot be offloaded, handled in a starved state, is
\* dropped and counted once, and no sandbox is made for it
StarvedArrivalDropped ==
  /\ last'.op = "OnArrival" /\ ~last'.canOff =>
       /\ last'.outcome \in {"dropped", "cold"}
       /\ DropCount' = DropCount + (IF last'.outcome = "dropped" THEN 1 ELSE 0)
       /\ nextID' = nextID
  /\ last'.op = "NewContainer" /\ ~req[last'.r].canOff =>
       /\ last'.outcome = "dropped"
       /\ DropCount' = DropCount + 1
       /\ nextID' = nextID
       /\ Creating' = Creating

\* C9 as stated: with no CPU available and no ready entry, every arrival with
\* CanDoOffloading false ends dropped and DropCount grows by one
C9_StarvedArrivalIsDropped ==
  [][Starved /\ last'.op \in {"OnArrival", "NewContainer"} =>
       StarvedArrivalDropped]_vars

\* C9 amended: the same for the functions whose CPU demand is positive
C9_StarvedArrivalWithDemandIsDropped ==
  [][Starved /\ last'.op \in {"OnArrival", "NewContainer"}
       /\ CPUDemand(last'.fun) > 0 =>
       StarvedArrivalDropped]_vars

\* a cold start has been refused in a starved state and the request dropped
C9_Witness ==
  /\ last.op = "NewContainer"
  /\ last.outcome = "dropped"
  /\ Starved
  /\ DropCount > 0

\* C10 as stated: a request reported to Completed had one Decide, and it is
\* reported LOCAL exactly when Decide said execute and OFFLOADED exactly when
\* Decide said offload
C10_ReportMatchesDecision ==
  [][last'.reported # "none" =>
       LET rq == req[last'.r] IN
       /\ rq.decides = 1
       /\ last'.reported = "LOCAL" <=> rq.dec = "EXECUTE_REQUEST"
       /\ last'.reported = "OFFLOADED" <=> rq.dec = "OFFLOAD_REQUEST"]_vars

\* C10 amended: a request reported to Completed had one Decide; it is
\* reported LOCAL only when Decide said execute and it ran in a sandbox, and
\* OFFLOADED only when it was offloaded, on the decision of Decide or, for a
\* request that may be offloaded, after a failed cold start
C10_ReportMatchesAction ==
  [][last'.reported # "none" =>
       LET rq == req[last'.r] IN
       /\ rq.decides = 1
       /\ last'.reported = "LOCAL" =>
            /\ rq.dec = "EXECUTE_REQUEST"
            /\ rq.sched \in {"LOCAL_WARM", "LOCAL_COLD"}
       /\ last'.reported = "OFFLOADED" =>
            /\ rq.sched = "OFFLOAD"
            /\ \/ rq.dec = "OFFLOAD_REQUEST"
               \/ rq.dec = "EXECUTE_REQUEST" /\ rq.canOff]_vars

\* an offloaded request has been reported to Completed
C10_Witness ==
  /\ last.op = "OnCompletion"
  /\ last.reported = "OFFLOADED"

\* C11: a request whose CanDoOffloading bit is clear is never offloaded:
\* Decide has not answered OFFLOAD for it, it is not in the hands of
\* handleCloudOffload and it is not tagged OFFLOAD
C11_NoOffloadWithoutBit ==
  \A r \in Reqs :
    (req[r].dec = "OFFLOAD_REQUEST" \/ req[r].state = "offloaded"
       \/ req[r].sched = "OFFLOAD") => req[r].canOff

\* a request that may not be offloaded has been dropped after a failed cold
\* start while another request is offloaded
C11_Witness ==
  /\ last.op \in {"NewContainer", "NewContainerWithAcquiredResources"}
  /\ ~last.ok
  /\ last.outcome = "dropped"
  /\ \E r \in Reqs : req[r].state = "offloaded"

\* C12: a successful AcquireWarmContainer(f) returns the id of the front
\* ready entry of the pool of f, moves that entry and no other from ready to
\* the back of busy, leaves the other pools as they were, deducts the CPU
\* demand of f and leaves the available memory unchanged
C12_WarmAcquireMovesFront ==
  [][last'.op = "AcquireWarmContainer" /\ last'.ok =>
       LET fn == last'.fun IN
       /\ HasPool(ContainerPools, fn)
       /\ ContainerPools[fn].ready # <<>>
       /\ req'[last'.r].cont = Head(ContainerPools[fn].ready).contID
       /\ DOMAIN ContainerPools' = DOMAIN ContainerPools
       /\ ContainerPools'[fn].ready = Tail(ContainerPools[fn].ready)
       /\ ContainerPools'[fn].busy =
            Append(ContainerPools[fn].busy,
                   [Function |-> fn, contID |-> Head(ContainerPools[fn].ready).contID])
       /\ \A x \in DOMAIN ContainerPools \ {fn} : ContainerPools'[x] = ContainerPools[x]
       /\ AvailableCPUs' = AvailableCPUs - CPUDemand(fn)
       /\ AvailableMemMB' = AvailableMemMB
       /\ live' = live]_vars

\* a warm sandbox has been acquired, at a cost in CPU, from a pool that held
\* two ready entries
C12_Witness ==
  /\ last.op = "AcquireWarmContainer"
  /\ last.ok
  /\ CPUDemand(last.fun) > 0
  /\ ContainerPools[last.fun].ready # <<>>
  /\ AvailableCPUs = InitCPU - CPUDemand(last.fun)

\* the case of C13: NewContainer is called for a function whose memory
\* demand is exactly the available memory, with CPU to spare, while the only
\* ready entry of the node belongs to another function
ColdStartAtExactMemory ==
  /\ last'.op = "NewContainer"
  /\ AvailableMemMB = MemoryMB(last'.fun)
  /\ AvailableCPUs >= CPUDemand(last'.fun)
  /\ Cardinality(Ready) = 1
  /\ \A e \in Ready : e[1] # last'.fun

\* C13 as stated: in that case the ready entry of the other function is
\* removed and its sandbox destroyed, and the available memory becomes 0
C13_ColdStartEvicts ==
  [][ColdStartAtExactMemory =>
       /\ \A e \in Ready : /\ ContainerPools'[e[1]].ready = <<>>
                           /\ EntryAt(e).contID \notin live'
       /\ AvailableMemMB' = 0]_vars

\* C13 amended: in that case the reservation succeeds without eviction: no
\* entry is removed, no sandbox is destroyed, the available memory becomes 0;
\* the sandbox then created for the function is stored at the back of its
\* busy collection and the memory stays as reserved
C13_ColdStartAtExactMemoryKeepsWarm ==
  [][/\ ColdStartAtExactMemory =>
          /\ last'.ok
          /\ ~last'.ev.called
          /\ ContainerPools' = ContainerPools
          /\ live' = live
          /\ AvailableMemMB' = 0
          /\ AvailableCPUs' = AvailableCPUs - CPUDemand(last'.fun)
          /\ req'[last'.r].state = "creating"
     /\ last'.op = "NewContainerWithAcquiredResources" /\ last'.ok =>
          /\ ContainerPools'[last'.fun].busy # <<>>
          /\ ContainerPools'[last'.fun].busy[Len(ContainerPools'[last'.fun].busy)]
               = [Function |-> last'.fun, contID |-> nextID]
          /\ nextID \in live'
          /\ AvailableMemMB' = AvailableMemMB]_vars

\* the sandbox of a cold start has been created with the whole memory
\* reserved, next to the warm sandbox of another function
C13_Witness ==
  /\ last.op = "NewContainerWithAcquiredResources"
  /\ last.ok
  /\ AvailableMemMB = 0
  /\ \E e \in Ready : e[1] # last.fun /\ EntryAt(e).contID \in live
  /\ \E e \in Busy : e[1] = last.fun

\* C14: ReleaseContainer(id, f) for an id in the busy collection of f
\* removes its entry from busy, appends an entry for it to the back of the
\* ready collection of f with expiration now + TTL, leaves the other entries
\* and pools as they were, credits the CPU demand of f and leaves the
\* available memory unchanged
C14_ReleaseMovesToBackOfReady ==
  [][last'.op = "ReleaseContainer" =>
       LET fn == last'.fun
           contID == req[last'.r].cont
           hits == {i \in 1..Len(ContainerPools[fn].busy) :
                      ContainerPools[fn].busy[i].contID = contID}
       IN /\ hits # {}
          /\ \E i \in hits :
               /\ ContainerPools'[fn].busy =
                    KeepAt(ContainerPools[fn].busy,
                           (1..Len(ContainerPools[fn].busy)) \ {i})
               /\ ContainerPools'[fn].ready =
                    Append(ContainerPools[fn].ready,
                           [Expiration |-> now + ExpirationTime,
                            Function |-> ContainerPools[fn].busy[i].Function,
                            contID |-> contID])
          /\ DOMAIN ContainerPools' = DOMAIN ContainerPools
          /\ \A x \in DOMAIN ContainerPools \ {fn} : ContainerPools'[x] = ContainerPools[x]
          /\ AvailableCPUs' = AvailableCPUs + CPUDemand(fn)
          /\ AvailableMemMB' = AvailableMemMB
          /\ live' = live]_vars

\* a sandbox has been released, with CPU credited, into a pool that already
\* held a ready entry
C14_Witness ==
  /\ last.op = "ReleaseContainer"
  /\ CPUDemand(last.fun) > 0
  /\ Len(ContainerPools[last.fun].ready) >= 2
  /\ AvailableCPUs = InitCPU

\* C19: when Decide has answered execute, no warm sandbox was acquired, the
\* cold start fails for lack of resources and the request may be offloaded,
\* OnArrival offloads it and does not drop it: the request is tagged
\* OFFLOAD and DropCount stays
C19_OffloadFallback ==
  [][(/\ last'.op = "NewContainer"
      /\ ~last'.ok
      /\ req[last'.r].dec = "EXECUTE_REQUEST"
      /\ req[last'.r].canOff) =>
       /\ last'.outcome = "offloaded"
       /\ req'[last'.r].state = "offloaded"
       /\ req'[last'.r].sched = "OFFLOAD"
       /\ DropCount' = DropCount
       /\ nextID' = nextID]_vars

\* a request that may be offloaded has been offloaded after its cold start
\* was refused
C19_Witness ==
  /\ last.op = "NewContainer"
  /\ ~last.ok
  /\ last.outcome = "offloaded"
  /\ req[last.r].dec = "EXECUTE_REQUEST"
  /\ req[last.r].sched = "OFFLOAD"

\* C17: when ShutdownWarmContainersFor(f) has returned, the ready and the
\* busy collection of the pool of f are empty, and when ShutdownAllContainers
\* has returned the two collections of every pool are empty
C17_ShutdownPurgesBothCollections ==
  /\ last.op = "ShutdownWarmContainersFor" /\ HasPool(ContainerPools, last.fun) =>
       /\ ContainerPools[last.fun].ready = <<>>
       /\ ContainerPools[last.fun].busy = <<>>
  /\ last.op = "ShutdownAllContainers" =>
       \A fn \in DOMAIN ContainerPools :
         /\ ContainerPools[fn].ready = <<>>
         /\ ContainerPools[fn].busy = <<>>

\* C15: ReleaseContainer sends its node-done signal before it releases the
\* lock: once it has returned, no signal of it is still to be sent
C15_SignalSentBeforeUnlock ==
  \A r \in Reqs : req[r].state # "signalling"

\* C16: when NewContainerWithAcquiredResources returns an error, for an
\* invalid runtime or a failure of the driver, the CPU and the memory that
\* NewContainer reserved have been credited back and no collection has a new
\* entry; when it succeeds the new sandbox is in the busy collection of the
\* function
C16_FailedCreationRollsBack ==
  [][last'.op = "NewContainerWithAcquiredResources" =>
       /\ ~last'.ok =>
            /\ AvailableCPUs' = AvailableCPUs + CPUDemand(last'.fun)
            /\ AvailableMemMB' = AvailableMemMB + MemoryMB(last'.fun)
            /\ ContainerPools' = ContainerPools
       /\ last'.ok =>
            \E i \in 1..Len(ContainerPools'[last'.fun].busy) :
              ContainerPools'[last'.fun].busy[i].contID = nextID]_vars

\* C18: once DeleteFunction has returned for a function, the pool of the
\* function holds no ready entry
C18_DeletedFunctionHasNoWarmEntry ==
  \A fn \in deleted :
    HasPool(ContainerPools, fn) => ContainerPools[fn].ready = <<>>

\* C20: two requests built by InvokeFunction for the same function with
\* different arrival times have different request ids
C20_ReqIdUnique ==
  \A a, b \in issued :
    a.fun = b.fun /\ a.Arrival # b.Arrival => a.ReqId # b.ReqId

\* the steps of OnArrival for a request: the decision with the warm
\* acquisition, and the two halves of the cold start
ArrivalSteps == {"OnArrival", "NewContainer", "NewContainerWithAcquiredResources"}

\* C22: every arrival handled by OnArrival ends in exactly one of the four
\* outcomes: run in a warm sandbox, run in a cold-started sandbox, offloaded,
\* dropped.  A step of OnArrival acts on a request that has no outcome yet
\* and either gives it one outcome, with the matching tag and the drop
\* counted once, or goes on with the cold start, whose last step gives the
\* outcome
C22_OneOutcomePerArrival ==
  [][last'.op \in ArrivalSteps =>
          /\ req[last'.r].state \in {"idle", "cold", "creating"}
          /\ last'.outcome \in {"running", "offloaded", "dropped", "cold", "creating"}
          /\ last'.outcome = "running" =>
               /\ req'[last'.r].sched =
                    (IF last'.op = "OnArrival" THEN "LOCAL_WARM" ELSE "LOCAL_COLD")
               /\ DropCount' = DropCount
          /\ last'.outcome = "offloaded" =>
               /\ req'[last'.r].sched = "OFFLOAD"
               /\ DropCount' = DropCount
          /\ last'.outcome = "dropped" => DropCount' = DropCount + 1
          /\ last'.outcome \in {"cold", "creating"} =>
               /\ req'[last'.r].state = last'.outcome
               /\ DropCount' = DropCount
          /\ last'.op = "NewContainerWithAcquiredResources" =>
               last'.outcome \in {"running", "offloaded", "dropped"}]_vars

\* a request has been dropped by the decision while another runs in a
\* cold-started sandbox and DropCount counts the one drop
C22_Witness ==
  /\ last.op = "OnArrival"
  /\ last.outcome = "dropped"
  /\ DropCount = 1
  /\ \E r \in Reqs : req[r].state = "running" /\ req[r].sched = "LOCAL_COLD"

\* the memory held by the sandboxes of the ready entries of all pools
WarmMem == SumFn([e \in Ready |-> GetMemoryMB(contMem, EntryAt(e).contID)], Ready)

\* C23: when the ready entries of all pools together hold less than the
\* memory asked for, dismissContainer returns false and changes nothing: no
\* entry is removed, no sandbox is destroyed, no Destroy is called and the
\* available memory is as before
C23_EvictionShortOfMemoryChangesNothing ==
  [][last'.ev.called /\ WarmMem < last'.ev.need =>
       /\ ~last'.ev.ok
       /\ ~last'.ok
       /\ last'.ev.calls = <<>>
       /\ last'.ev.removed = {}
       /\ ContainerPools' = ContainerPools
       /\ live' = live
       /\ AvailableMemMB' = AvailableMemMB
       /\ AvailableCPUs' = AvailableCPUs]_vars

\* an eviction has been refused although a pool holds a ready entry: the
\* entry is still there, its sandbox alive, and nothing was destroyed
C23_Witness ==
  /\ last.ev.called
  /\ ~last.ev.ok
  /\ last.ev.calls = <<>>
  /\ Ready # {}
  /\ \A e \in Ready : EntryAt(e).contID \in live

\* the collections of the pool of fn in pools, empty when the map has none
Collections(pools, fn) == getFunctionPool(pools, fn)[fn]

\* C24: when AcquireWarmContainer(f) fails, the ready and the busy
\* collection of the pool of f, the other pools and the ledger are as before
\* the call
C24_FailedWarmAcquireChangesNothing ==
  [][last'.op = "AcquireWarmContainer" /\ ~last'.ok =>
       /\ \A fn \in Funcs : Collections(ContainerPools', fn) = Collections(ContainerPools, fn)
       /\ AvailableCPUs' = AvailableCPUs
       /\ AvailableMemMB' = AvailableMemMB]_vars

InUse == {EntryAt(e).contID : e \in Busy}

C21_ForwardUsesSelectedBackend ==
  [][/\ lbProxy'.lbPolicy \in Policies
     /\ last'.op = "SelectBackend" =>
          /\ fwd'[last'.r].by = lbProxy.lbPolicy
          /\ fwd'[last'.r].backend \in
               SelectTarget(lbProxy.lbPolicy, lbProxy.targetsInfo.targets, last'.fun)
     /\ last'.op = "HandleRequest" =>
          /\ fwd'[last'.r].sent = fwd[last'.r].backend
          /\ fwd'[last'.r].by = fwd[last'.r].by
          /\ lbProxy' = lbProxy]_vars

\* a request has been forwarded to the backend selected for it after the
\* agent installed another policy and the refresh dropped that backend from
\* the targets
C21_Witness ==
  /\ last.op = "HandleRequest"
  /\ fwd[last.r].sent = fwd[last.r].backend
  /\ fwd[last.r].by # lbProxy.lbPolicy
  /\ fwd[last.r].sent \notin Range(lbProxy.targetsInfo.targets)

\* C26: after a cycle of the MAB agent the policy label of newStats names
\* the policy that the cycle installed on the proxy
C26_StatsLabelNamesInstalledPolicy ==
  last.op = "startMABAgent" => lbProxy.newStats.LBPolicy = lbProxy.lbPolicy

\* C27: after a refresh of the targets the proxy holds one status per
\* target, in the order of the targets, all fetched by that refresh
C27_OneStatusPerTarget ==
  last.op = "updateTargets" =>
    /\ Len(lbProxy.targetsInfo.targetsStatus) = Len(lbProxy.targetsInfo.targets)
    /\ \A i \in DOMAIN lbProxy.targetsInfo.targetsStatus :
         lbProxy.targetsInfo.targetsStatus[i].at = lbRuns.refreshes

\* C28: GetServerStatus always completes next to the writers of the ledger:
\* no status call sleeps in the RLock of WarmStatus, with the read lock of
\* GetServerStatus held, behind a writer that has announced itself in Lock
\* and waits for that read lock to be released.  In such a state neither of
\* the two can ever take a step.
C28_StatusNeverSleepsBehindWriter ==
  \A s \in StatusCalls :
    serverStatus[s].pc = "waitInner" => rw.announced = 0 /\ rw.writer # 0

\* C29: while the scheduling of an invocation is in progress, the request
\* object the invocation took from the pool still holds the fields that
\* invocation wrote: no other invocation has been handed the object and has
\* overwritten it.  This includes the async invocations, whose scheduling
\* goes on after the handler has returned.
C29_RequestKeptWhileScheduling ==
  \A i \in Invs :
    calls[i].sched = "running" => objects[calls[i].r].ReqId = i

====
